---- MODULE Spec2Model ----
(***************************************************************************)
(* Distribution of whole-vector operations onto a grid of lanes            *)
(* (GPUDistributionPatterns.cpp): the index computation, the permutation   *)
(* reduction and the four distribution patterns, together with the         *)
(* execution of the code they emit on every lane.                          *)
(***************************************************************************)
EXTENDS Integers, Sequences, FiniteSets, TLC

VARIABLES op, pc, state, xfer, emitted, rewrite, memory, simt

vars == <<op, pc, state, xfer, emitted, rewrite, memory, simt>>

(***************************************************************************)
(* Bounds of the model.                                                    *)
(***************************************************************************)
\* product of all extents of a layout given to a transfer or a constant
MaxElems == 8
\* product of all extents of a layout given to an elementwise operation
MaxEwElems == 4
\* number of vector dimensions of a layout
MaxDims == 2
\* number of leading projected-out dimensions of a permutation map
MaxLead == 1
\* largest base index of a transfer
MaxBase == 1
\* product of all extents of a layout that is no LayoutAttr
MaxOtherElems == 2

(***************************************************************************)
(* Layout model: labels, per-dimension layouts, layouts.                   *)
(***************************************************************************)
LaneLabels == {"LANEX", "LANEY", "LANEZ"}

Labels == {"BATCHX", "VECTORX"} \cup LaneLabels

isLane(label) == label \in LaneLabels

RECURSIVE ShapeProduct(_)
ShapeProduct(entries) ==
  IF entries = <<>> THEN 1
  ELSE Head(entries).shape * ShapeProduct(Tail(entries))

RECURSIVE Concat(_)
Concat(seqs) == IF seqs = <<>> THEN <<>> ELSE Head(seqs) \o Concat(Tail(seqs))

\* the (label, extent) entries of a layout, dimensions in layout order
AllEntries(layout) == Concat(layout.layouts)

NonLaneEntries(entries) == SelectSeq(entries, LAMBDA e : ~isLane(e.label))

\* PerDimLayoutAttr::getShape: the extent of a label in one per-dimension
\* layout, 0 standing for "absent"
getShape(dimLayout, label) ==
  IF \E i \in 1..Len(dimLayout) : dimLayout[i].label = label
  THEN dimLayout[CHOOSE i \in 1..Len(dimLayout) :
                   /\ dimLayout[i].label = label
                   /\ \A j \in 1..(i - 1) : dimLayout[j].label # label].shape
  ELSE 0

\* the lane-grid extent of one lane label: its extent in the layout, or 1
LaneExtent(dims, label) ==
  IF \E d \in 1..Len(dims) : getShape(dims[d], label) # 0
  THEN getShape(dims[CHOOSE d \in 1..Len(dims) : getShape(dims[d], label) # 0], label)
  ELSE 1

\* LayoutAttr::getLaneGrid: (X, Y, Z)
getLaneGrid(layout) == layout.laneGrid

MakeLayout(dims) ==
  [layouts |-> dims,
   laneGrid |-> <<LaneExtent(dims, "LANEX"), LaneExtent(dims, "LANEY"),
                  LaneExtent(dims, "LANEZ")>>]

NoLayout == [layouts |-> <<>>, laneGrid |-> <<1, 1, 1>>]

NumLanes(layout) == layout.laneGrid[1] * layout.laneGrid[2] * layout.laneGrid[3]

LaneIds(layout) == 0..(NumLanes(layout) - 1)

\* the logical (whole-vector) extent of each dimension
VectorShape(layout) ==
  [d \in 1..Len(layout.layouts) |-> ShapeProduct(layout.layouts[d])]

\* LayoutAttr::getDistributedShape: per dimension, the product of the
\* extents of the non-lane labels
getDistributedShape(layout) ==
  [d \in 1..Len(layout.layouts) |->
     ShapeProduct(NonLaneEntries(layout.layouts[d]))]

\* LayoutAttr::permute: the per-dimension list reordered by a 0-based
\* permutation
isValidPermutation(permutation, n) ==
  /\ Len(permutation) = n
  /\ \A i \in 1..n : permutation[i] \in 0..(n - 1)
  /\ \A i, j \in 1..n : i # j => permutation[i] # permutation[j]

permute(layout, permutation) ==
  [layouts |-> [i \in 1..Len(permutation) |-> layout.layouts[permutation[i] + 1]],
   laneGrid |-> layout.laneGrid]

(***************************************************************************)
(* The layouts the model draws from.                                       *)
(***************************************************************************)
RECURSIVE EntryLists(_, _)
\* the lists of at most n entries with distinct labels, extents of at least
\* 2 and a product of at most maxElems
EntryLists(n, maxElems) ==
  IF n = 0 THEN {<<>>}
  ELSE LET shorter == EntryLists(n - 1, maxElems)
           more == {p \in shorter \X [label : Labels, shape : 2..maxElems] :
                      /\ Len(p[1]) = n - 1
                      /\ \A i \in 1..Len(p[1]) : p[1][i].label # p[2].label
                      /\ ShapeProduct(p[1]) * p[2].shape <= maxElems}
       IN shorter \cup {Append(p[1], p[2]) : p \in more}

\* the lists split into consecutive non-empty per-dimension layouts
SplitAt(entries, cuts) ==
  LET n == Cardinality(cuts) + 1
      cut(i) == IF i = 0 THEN 0
                ELSE IF i = n THEN Len(entries)
                ELSE CHOOSE c \in cuts : Cardinality({x \in cuts : x < c}) = i - 1
  IN [i \in 1..n |-> SubSeq(entries, cut(i - 1) + 1, cut(i))]

LayoutsUpTo(maxElems) ==
  LET lists == EntryLists(maxElems, maxElems) \ {<<>>}
  IN {MakeLayout(SplitAt(p[1], p[2])) :
        p \in {q \in lists \X SUBSET (1..maxElems) :
                 /\ q[2] \subseteq 1..(Len(q[1]) - 1)
                 /\ Cardinality(q[2]) < MaxDims}}

(***************************************************************************)
(* Layout iterator: the combinations of positions of the non-lane labels.  *)
(***************************************************************************)
\* LayoutIterator::State::lookup: the position of a label, 0 for a label
\* the state does not range over
lookup(st, label) == IF label \in DOMAIN st THEN st[label] ELSE 0

stepOf(steps, label) == IF label \in DOMAIN steps THEN steps[label] ELSE 1

\* LayoutIterator::LayoutIterator: every non-lane label at position 0
iteratorBegin(layout) ==
  LET entries == NonLaneEntries(AllEntries(layout))
  IN [l \in {entries[i].label : i \in 1..Len(entries)} |-> 0]

canAdvance(st, entry, steps) ==
  st[entry.label] + stepOf(steps, entry.label) <= entry.shape - 1

iteratorAtEnd(st, layout, steps) ==
  LET entries == NonLaneEntries(AllEntries(layout))
  IN \A i \in 1..Len(entries) : ~canAdvance(st, entries[i], steps)

\* LayoutIterator::next: the fastest-changing label that can still advance
\* does so, and every label after it starts over
iteratorNext(st, layout, steps) ==
  LET entries == NonLaneEntries(AllEntries(layout))
      i == CHOOSE k \in 1..Len(entries) :
             /\ canAdvance(st, entries[k], steps)
             /\ \A j \in (k + 1)..Len(entries) : ~canAdvance(st, entries[j], steps)
  IN [l \in DOMAIN st |->
        IF l = entries[i].label THEN st[l] + stepOf(steps, l)
        ELSE IF \E j \in (i + 1)..Len(entries) : entries[j].label = l THEN 0
        ELSE st[l]]

RECURSIVE dimSIMTIndex(_, _, _, _, _)
dimSIMTIndex(st, dimLayout, i, stride, offset) ==
  IF i = 0 THEN offset
  ELSE IF isLane(dimLayout[i].label)
       THEN dimSIMTIndex(st, dimLayout, i - 1, stride, offset)
       ELSE dimSIMTIndex(st, dimLayout, i - 1, stride * dimLayout[i].shape,
                         offset + stride * lookup(st, dimLayout[i].label))

\* LayoutIterator::State::computeSIMTIndex: per vector dimension, the offset
\* into the lane-resident array given by the positions of the non-lane
\* labels
computeSIMTIndex(st, layout) ==
  [d \in 1..Len(layout.layouts) |->
     dimSIMTIndex(st, layout.layouts[d], Len(layout.layouts[d]), 1, 0)]

(***************************************************************************)
(* Index computation.                                                      *)
(***************************************************************************)
\* an affine expression over the symbols threadX, threadY, threadZ
AffineExpr(x, y, z, c) == [x |-> x, y |-> y, z |-> z, c |-> c]

RECURSIVE dimOffset_keepStride(_, _, _, _, _)
dimOffset_keepStride(st, dimLayout, i, stride, offset) ==
  IF i = 0 THEN offset
  ELSE LET label == dimLayout[i].label
           position == lookup(st, label)
           next == CASE label = "LANEX" -> [offset EXCEPT !.x = @ + stride]
                     [] label = "LANEY" -> [offset EXCEPT !.y = @ + stride]
                     [] label = "LANEZ" -> [offset EXCEPT !.z = @ + stride]
                     [] OTHER -> [offset EXCEPT !.c = @ + stride * position]
       IN dimOffset_keepStride(st, dimLayout, i - 1, stride, next)

RECURSIVE dimOffset(_, _, _, _, _)
\* the loop over one dimension's (label, shape) pairs, last to first
dimOffset(st, dimLayout, i, stride, offset) ==
  IF i = 0 THEN offset
  ELSE LET label == dimLayout[i].label
           position == lookup(st, label)
           next == CASE label = "LANEX" -> [offset EXCEPT !.x = @ + stride]
                     [] label = "LANEY" -> [offset EXCEPT !.y = @ + stride]
                     [] label = "LANEZ" -> [offset EXCEPT !.z = @ + stride]
                     [] OTHER -> [offset EXCEPT !.c = @ + stride * position]
       IN dimOffset(st, dimLayout, i - 1, stride * dimLayout[i].shape, next)

\* a bug: the stride is not multiplied by the extent
computeSIMDIndex_keepStride(st, layout) ==
  [d \in 1..Len(layout.layouts) |->
     dimOffset_keepStride(st, layout.layouts[d], Len(layout.layouts[d]), 1,
                          AffineExpr(0, 0, 0, 0))]

\* computeSIMDIndex: one affine expression per vector dimension
computeSIMDIndex(st, layout) ==
  [d \in 1..Len(layout.layouts) |->
     dimOffset(st, layout.layouts[d], Len(layout.layouts[d]), 1,
               AffineExpr(0, 0, 0, 0))]

\* affine::delinearizeIndex: quotient by the product of the later basis
\* entries, the remainder carried on
delinearizeIndex(linearIndex, basis) ==
  LET n == Len(basis)
      divisor(i) == ShapeProduct([k \in 1..(n - i) |-> [shape |-> basis[i + k]]])
      RECURSIVE residual(_)
      residual(i) == IF i = 1 THEN linearIndex
                     ELSE residual(i - 1) % divisor(i - 1)
  IN [i \in 1..n |-> IF i < n THEN residual(i) \div divisor(i) ELSE residual(n)]

\* a bug: the basis is given as (X, Y, Z)
laneGridVals_xyzBasis(laneId, layout) ==
  LET grid == getLaneGrid(layout)
      vals == delinearizeIndex(laneId, <<grid[1], grid[2], grid[3]>>)
  IN <<vals[3], vals[2], vals[1]>>

\* the lane coordinates (x, y, z): laneId delinearized over (Z, Y, X) and
\* read back in reverse
laneGridVals(laneId, layout) ==
  LET grid == getLaneGrid(layout)
      reversed == delinearizeIndex(laneId, <<grid[3], grid[2], grid[1]>>)
  IN <<reversed[3], reversed[2], reversed[1]>>

\* affine.apply of an expression to the lane coordinates
affineApply(expr, vals) ==
  expr.x * vals[1] + expr.y * vals[2] + expr.z * vals[3] + expr.c

(***************************************************************************)
(* Permutation reduction.                                                  *)
(***************************************************************************)
AffineDimExpr(pos) == [kind |-> "dim", value |-> pos]

AffineConstantExpr(v) == [kind |-> "constant", value |-> v]

\* AffineMap::isProjectedPermutation: distinct dimensions only
isProjectedPermutation(map) ==
  /\ Len(map.results) <= map.numDims
  /\ \A i \in 1..Len(map.results) : map.results[i].kind = "dim"
  /\ \A i, j \in 1..Len(map.results) :
       i # j => map.results[i].value # map.results[j].value

leadingUnitDims(map) == map.numDims - Len(map.results)

\* the map makes getReducedPermutation end the process: a result that is
\* no dimension, or a dimension among the leading ones
reducedPermutationFatal(map) ==
  \/ ~isProjectedPermutation(map)
  \/ \E i \in 1..Len(map.results) : map.results[i].value < leadingUnitDims(map)

\* a bug: the leading dimensions are not subtracted
getReducedPermutation_noLeading(map) ==
  [i \in 1..Len(map.results) |-> map.results[i].value]

\* getReducedPermutation: the position of each result less the number of
\* leading dimensions
getReducedPermutation(map) ==
  [i \in 1..Len(map.results) |-> map.results[i].value - leadingUnitDims(map)]

(***************************************************************************)
(* Values: whole vectors, lane-resident arrays and memory are functions    *)
(* from 0-based index tuples to numbers.                                   *)
(***************************************************************************)
RECURSIVE Tuples(_)
Tuples(sizes) ==
  IF sizes = <<>> THEN {<<>>}
  ELSE {<<h>> \o t : h \in 0..(Head(sizes) - 1), t \in Tuples(Tail(sizes))}

RECURSIVE Linearize(_, _)
\* the row-major position of an index tuple
Linearize(idx, sizes) ==
  IF idx = <<>> THEN 0
  ELSE Linearize(SubSeq(idx, 1, Len(idx) - 1), SubSeq(sizes, 1, Len(sizes) - 1))
         * sizes[Len(sizes)] + idx[Len(idx)]

\* an element, or the poison value 0 outside the array
ElementAt(array, idx) == IF idx \in DOMAIN array THEN array[idx] ELSE 0

AddLast(idx, k) == [idx EXCEPT ![Len(idx)] = @ + k]

\* every combination of positions of the non-lane labels of a layout
AllStates(layout) ==
  LET entries == NonLaneEntries(AllEntries(layout))
      labels == {entries[i].label : i \in 1..Len(entries)}
      extent(l) == entries[CHOOSE i \in 1..Len(entries) : entries[i].label = l].shape
  IN {st \in [labels -> 0..(ShapeProduct(entries) - 1)] :
        \A l \in labels : st[l] < extent(l)}

\* the position of a state in the whole vector, as one lane sees it
SIMDIndexAt(st, layout, laneId) ==
  LET simdIndex == computeSIMDIndex(st, layout)
  IN [d \in 1..Len(simdIndex) |->
        affineApply(simdIndex[d], laneGridVals(laneId, layout))]

\* DistributionPattern::getDistributed, executed: the lane-resident array
\* of a whole vector under a layout
Distributed(vector, layout, laneId) ==
  [i \in Tuples(getDistributedShape(layout)) |->
     LET states == {st \in AllStates(layout) : computeSIMTIndex(st, layout) = i}
     IN IF states = {} THEN 0
        ELSE ElementAt(vector, SIMDIndexAt(CHOOSE st \in states : TRUE, layout, laneId))]

(***************************************************************************)
(* The operations the patterns are applied to.                             *)
(***************************************************************************)
Assigned(layout) == [kind |-> "LayoutAttr", attr |-> layout]

OtherLayout(layout) == [kind |-> "other", attr |-> layout]

Unassigned == [kind |-> "unassigned", attr |-> NoLayout]

NoMap == [numDims |-> 0, results |-> <<>>]

\* the permutation maps of a transfer of a rank-r vector: r distinct
\* dimensions out of r to r + MaxLead, and with no dimension projected out
\* also broadcast constants in their place
Maps(r) ==
  UNION {LET exprs == {AffineDimExpr(p) : p \in 0..(d - 1)}
                        \cup (IF d = r THEN {AffineConstantExpr(0)} ELSE {})
         IN {[numDims |-> d, results |-> rs] :
               rs \in {q \in [1..r -> exprs] :
                         \A i, j \in 1..r :
                           (i # j /\ q[i].kind = "dim" /\ q[j].kind = "dim")
                             => q[i].value # q[j].value}}
         : d \in r..(r + MaxLead)}

Rank(sig) == IF sig.attr.layouts = <<>> THEN 1 ELSE Len(sig.attr.layouts)

XferOp(kind, sig, map, base, mask) ==
  [kind |-> kind, name |-> kind, isVector |-> TRUE, isSplat |-> FALSE,
   layouts |-> <<sig>>, map |-> map, indices |-> [i \in 1..map.numDims |-> base],
   needsMask |-> mask, roundTrip |-> FALSE]

ConstantOp(isVector, isSplat, sig) ==
  [kind |-> "arith.constant", name |-> "arith.constant", isVector |-> isVector,
   isSplat |-> isSplat, layouts |-> <<sig>>, map |-> NoMap, indices |-> <<>>,
   needsMask |-> FALSE, roundTrip |-> FALSE]

ElementwiseOp(name, sigs) ==
  [kind |-> "elementwise", name |-> name, isVector |-> TRUE, isSplat |-> FALSE,
   layouts |-> sigs, map |-> NoMap, indices |-> <<>>,
   needsMask |-> FALSE, roundTrip |-> FALSE]

\* the layout assignments of one vector value: a LayoutAttr, another kind
\* of layout, or none
Signatures(maxElems) ==
  {Assigned(l) : l \in LayoutsUpTo(maxElems)} \cup {Unassigned}
    \cup {OtherLayout(l) : l \in LayoutsUpTo(MaxOtherElems)}

ElementwiseNames == {"arith.addi", "arith.muli"}

\* two vector operands and one vector result of the same vector shape
ElementwiseSignatures ==
  LET layouts == LayoutsUpTo(MaxEwElems)
      pairs == {p \in layouts \X layouts : VectorShape(p[1]) = VectorShape(p[2])}
      assigned == UNION {{<<Assigned(p[1]), Assigned(p[2]), Assigned(p[1])>>,
                          <<Assigned(p[1]), Assigned(p[2]), Assigned(p[2])>>}
                         : p \in pairs}
      missing == UNION {{<<Unassigned, Assigned(l), Assigned(l)>>,
                         <<Assigned(l), Assigned(l), Unassigned>>}
                        : l \in LayoutsUpTo(MaxOtherElems)}
  IN assigned \cup missing \cup {<<Unassigned, Unassigned, Unassigned>>}

\* the layout the transfer patterns read from the signature
XferLayout(o) == o.layouts[1].attr

\* the extents of the memory a transfer addresses: the base index plus,
\* along every memory dimension a result of the map selects, the extent of
\* the vector dimension whose addresses are added there
MemoryShape(o) ==
  LET lead == leadingUnitDims(o.map)
      plain == o.layouts[1].kind = "LayoutAttr" /\ ~reducedPermutationFatal(o.map)
      source(i) == o.map.results[i - lead].value - lead + 1
  IN [i \in 1..o.map.numDims |->
        o.indices[i] + (IF plain /\ i > lead
                        THEN ShapeProduct(XferLayout(o).layouts[source(i)])
                        ELSE 1)]

\* memory holds a different non-zero number in every element
MemoryInit(o) ==
  IF o.kind \in {"vector.transfer_read", "vector.transfer_write"}
  THEN [idx \in Tuples(MemoryShape(o)) |-> 1 + Linearize(idx, MemoryShape(o))]
  ELSE <<>>

\* the whole vector given as operand number k
OperandVector(layout, k) ==
  [idx \in Tuples(VectorShape(layout)) |->
     k * 10 + 1 + k * Linearize(idx, VectorShape(layout))]

\* the lane-resident vector a transfer write is given
SimtInit(o) ==
  IF o.kind = "vector.transfer_write" /\ o.layouts[1].kind = "LayoutAttr"
  THEN [l \in LaneIds(XferLayout(o)) |->
          Distributed(OperandVector(XferLayout(o), 1), XferLayout(o), l)]
  ELSE <<>>

NoXfer == [permutation |-> <<>>, memoryLayout |-> NoLayout, steps |-> <<>>]

InitWith(o) ==
  /\ op = o
  /\ pc = "pending"
  /\ state = <<>>
  /\ xfer = NoXfer
  /\ emitted = <<>>
  /\ rewrite = "none"
  /\ memory = MemoryInit(o)
  /\ simt = SimtInit(o)

Init ==
  \/ \E sig \in Signatures(MaxEwElems), isVector \in BOOLEAN, isSplat \in BOOLEAN :
       InitWith(ConstantOp(isVector, isSplat, sig))
  \/ \E sigs \in ElementwiseSignatures, name \in ElementwiseNames :
       InitWith(ElementwiseOp(name, sigs))
  \/ \E sig \in Signatures(MaxElems) :
       \E map \in Maps(Rank(sig)), base \in {0, MaxBase}, mask \in BOOLEAN :
         InitWith(XferOp("vector.transfer_read", sig, map, base, mask))
  \/ \E sig \in Signatures(MaxEwElems) :
       \E map \in Maps(Rank(sig)), base \in {0, MaxBase}, mask \in BOOLEAN :
         InitWith(XferOp("vector.transfer_write", sig, map, base, mask))

(***************************************************************************)
(* The code the patterns emit.                                             *)
(***************************************************************************)
EmittedOp(name, indices, offsets, shape, value, layout) ==
  [name |-> name, indices |-> indices, offsets |-> offsets, shape |-> shape,
   value |-> value, layout |-> layout]

\* DistributionPattern::getDistributed: the conversion of operand number k
\* to its lane-resident form
getDistributed(k, layout) ==
  EmittedOp("to_simt", <<>>, <<>>, getDistributedShape(layout), k, layout)

\* a bug: the width is read from the slowest-changing dimension
getLoadStoreWidth_front(layout) ==
  LET fastestChanging == layout.layouts[1]
  IN IF getShape(fastestChanging, "VECTORX") # 0
     THEN getShape(fastestChanging, "VECTORX")
     ELSE 1

\* DistributeXferLayoutAttr::getLoadStoreWidth
getLoadStoreWidth(layout) ==
  LET fastestChanging == layout.layouts[Len(layout.layouts)]
  IN IF getShape(fastestChanging, "VECTORX") # 0
     THEN getShape(fastestChanging, "VECTORX")
     ELSE 1

\* DistributeXferLayoutAttr::getMemoryIndices: the base indices, the
\* trailing ones with the lane's offset added
getMemoryIndices(st, memoryLayout, indices) ==
  LET simdIndices == computeSIMDIndex(st, memoryLayout)
      leadingProjectedDims == Len(indices) - Len(simdIndices)
  IN [i \in 1..Len(indices) |->
        [base |-> indices[i],
         expr |-> IF i > leadingProjectedDims
                  THEN simdIndices[i - leadingProjectedDims]
                  ELSE AffineExpr(0, 0, 0, 0)]]

\* DistributeTransferReadLayoutAttr::accessUnit
readAccessUnit(memoryIndices, accIndices, memoryLayout) ==
  <<EmittedOp("vector.load", memoryIndices, <<>>,
              <<getLoadStoreWidth(memoryLayout)>>, 0, NoLayout),
    EmittedOp("vector.insert_strided_slice", <<>>, accIndices, <<>>, 0, NoLayout)>>

\* DistributeTransferWriteLayoutAttr::accessUnit
writeAccessUnit(memoryIndices, accIndices, vectorLayout, memoryLayout) ==
  LET width == getLoadStoreWidth(memoryLayout)
      n == Len(accIndices)
      shapes == [i \in 1..n |-> IF i = n THEN width ELSE 1]
  IN <<getDistributed(1, vectorLayout),
       EmittedOp("vector.extract_strided_slice", <<>>, accIndices, shapes, 0, NoLayout),
       EmittedOp("vector.extract", <<>>, [i \in 1..(n - 1) |-> 0], <<width>>, 0, NoLayout),
       EmittedOp("vector.store", memoryIndices, <<>>, <<width>>, 0, NoLayout)>>

accessUnit(o, memoryIndices, accIndices, vectorLayout, memoryLayout) ==
  IF o.kind = "vector.transfer_read"
  THEN readAccessUnit(memoryIndices, accIndices, memoryLayout)
  ELSE writeAccessUnit(memoryIndices, accIndices, vectorLayout, memoryLayout)

\* a bug: the unit is emitted before the earlier ones
accessMemoryStep_prepend(before, st, o, x) ==
  accessUnit(o, getMemoryIndices(st, x.memoryLayout, o.indices),
             computeSIMTIndex(st, XferLayout(o)), XferLayout(o), x.memoryLayout)
    \o before

\* the callback of accessMemory: one unit per iteration state
accessMemoryStep(before, st, o, x) ==
  before \o accessUnit(o, getMemoryIndices(st, x.memoryLayout, o.indices),
                       computeSIMTIndex(st, XferLayout(o)), XferLayout(o),
                       x.memoryLayout)

\* accessMemory up to the construction of the iterator
accessMemorySetup(o) ==
  LET vectorLayout == XferLayout(o)
      permutation == getReducedPermutation(o.map)
      memoryLayout == permute(vectorLayout, permutation)
      loadWidth == getLoadStoreWidth(memoryLayout)
  IN [permutation |-> permutation,
      memoryLayout |-> memoryLayout,
      steps |-> [l \in {"VECTORX"} |-> loadWidth]]

\* accessMemory ends the process before it builds the iterator
accessMemoryFatal(o) ==
  \/ reducedPermutationFatal(o.map)
  \/ ~isValidPermutation(getReducedPermutation(o.map), Len(XferLayout(o).layouts))

(***************************************************************************)
(* Execution of the emitted code by one lane.                              *)
(***************************************************************************)
evalIndices(indices, laneId, layout) ==
  [i \in 1..Len(indices) |->
     indices[i].base + affineApply(indices[i].expr, laneGridVals(laneId, layout))]

\* vector.load: contiguous elements along the last memory dimension
vectorLoad(mem, indices, width) ==
  [k \in 1..width |-> ElementAt(mem, AddLast(indices, k - 1))]

\* vector.store
vectorStore(mem, indices, vector) ==
  [idx \in DOMAIN mem |->
     IF \E k \in 1..Len(vector) : idx = AddLast(indices, k - 1)
     THEN vector[CHOOSE k \in 1..Len(vector) : idx = AddLast(indices, k - 1)]
     ELSE mem[idx]]

\* vector.insert_strided_slice of a 1-D vector along the last dimension
insertStridedSlice(vector, acc, offsets) ==
  [idx \in DOMAIN acc |->
     IF \E k \in 1..Len(vector) : idx = AddLast(offsets, k - 1)
     THEN vector[CHOOSE k \in 1..Len(vector) : idx = AddLast(offsets, k - 1)]
     ELSE acc[idx]]

\* vector.extract_strided_slice with unit strides
extractStridedSlice(vector, offsets, sizes) ==
  [idx \in Tuples(sizes) |->
     ElementAt(vector, [i \in 1..Len(offsets) |-> offsets[i] + idx[i]])]

\* vector.extract of the innermost 1-D vector at a position
vectorExtract(vector, position, width) ==
  [k \in 1..width |-> ElementAt(vector, position \o <<k - 1>>)]

RECURSIVE runRead(_, _, _, _, _, _, _)
\* the lane-resident result of the code emitted for a transfer read
runRead(ops, i, acc, loaded, mem, laneId, layout) ==
  IF i > Len(ops) THEN acc
  ELSE LET o == ops[i]
       IN CASE o.name = "arith.constant" ->
                 runRead(ops, i + 1, [idx \in Tuples(o.shape) |-> o.value],
                         loaded, mem, laneId, layout)
            [] o.name = "vector.load" ->
                 runRead(ops, i + 1, acc,
                         vectorLoad(mem, evalIndices(o.indices, laneId, layout),
                                    o.shape[1]),
                         mem, laneId, layout)
            [] o.name = "vector.insert_strided_slice" ->
                 runRead(ops, i + 1, insertStridedSlice(loaded, acc, o.offsets),
                         loaded, mem, laneId, layout)
            [] OTHER -> runRead(ops, i + 1, acc, loaded, mem, laneId, layout)

RECURSIVE storeAll(_, _, _, _, _)
\* one vector.store run by every lane, the lanes taking effect in the
\* order given
storeAll(mem, order, o, values, layout) ==
  IF order = <<>> THEN mem
  ELSE storeAll(vectorStore(mem, evalIndices(o.indices, Head(order), layout),
                            values[Head(order)]),
                Tail(order), o, values, layout)

RECURSIVE runWrite(_, _, _, _, _, _, _)
\* memory after the lanes have run, in lockstep, the code emitted for a
\* transfer write
runWrite(ops, i, sources, values, mem, order, layout) ==
  IF i > Len(ops) THEN mem
  ELSE LET o == ops[i]
       IN CASE o.name = "vector.extract_strided_slice" ->
                 runWrite(ops, i + 1, sources,
                          [l \in DOMAIN sources |->
                             extractStridedSlice(sources[l], o.offsets, o.shape)],
                          mem, order, layout)
            [] o.name = "vector.extract" ->
                 runWrite(ops, i + 1, sources,
                          [l \in DOMAIN sources |->
                             vectorExtract(values[l], o.offsets, o.shape[1])],
                          mem, order, layout)
            [] o.name = "vector.store" ->
                 runWrite(ops, i + 1, sources, values,
                          storeAll(mem, order, o, values, layout), order, layout)
            [] OTHER -> runWrite(ops, i + 1, sources, values, mem, order, layout)

\* the orders in which the lanes' stores of one instruction take effect
LaneOrders(layout) ==
  LET n == NumLanes(layout)
  IN {[k \in 1..n |-> k - 1], [k \in 1..n |-> n - k]}

applyElementwise(name, a, b) == IF name = "arith.muli" THEN a * b ELSE a + b

\* the lane-resident result of the code emitted for an elementwise
\* operation; the empty array when the operand and result types disagree
runElementwise(ops, laneId) ==
  LET conversions == SelectSeq(ops, LAMBDA o : o.name = "to_simt")
      operation == ops[Len(ops)]
      operand(k) == Distributed(OperandVector(conversions[k].layout, conversions[k].value),
                                conversions[k].layout, laneId)
  IN IF /\ Len(conversions) = 2
        /\ \A k \in 1..2 : conversions[k].shape = operation.shape
     THEN [idx \in Tuples(operation.shape) |->
             applyElementwise(operation.name, operand(1)[idx], operand(2)[idx])]
     ELSE <<>>

(***************************************************************************)
(* The patterns.                                                           *)
(***************************************************************************)
\* what a use of an unassigned (null) layout can do: end the process, or
\* go on with no shape at all
NullLayoutOutcomes == {"abort", "success"}

\* DistributeConstants::matchAndRewrite
MatchConstant ==
  /\ pc = "pending"
  /\ op.kind = "arith.constant"
  /\ IF ~op.isVector \/ ~op.isSplat
     THEN /\ pc' = "failure"
          /\ UNCHANGED <<emitted, rewrite>>
     ELSE IF op.layouts[1].kind = "unassigned"
     THEN \E outcome \in NullLayoutOutcomes :
            /\ pc' = outcome
            /\ emitted' = IF outcome = "success"
                          THEN <<EmittedOp("arith.constant", <<>>, <<>>, <<>>, 1, NoLayout)>>
                          ELSE emitted
            /\ rewrite' = IF outcome = "success" THEN "replaced" ELSE rewrite
     ELSE /\ emitted' = <<EmittedOp("arith.constant", <<>>, <<>>,
                                    getDistributedShape(op.layouts[1].attr), 1,
                                    NoLayout)>>
          /\ rewrite' = "replaced"
          /\ pc' = "success"
  /\ UNCHANGED <<op, state, xfer, memory, simt>>

\* a bug: both operands are taken from the first one
elementwiseOperands_first(o) ==
  <<getDistributed(1, o.layouts[1].attr), getDistributed(1, o.layouts[1].attr)>>

\* the distributed operands of an elementwise operation
elementwiseOperands(o) ==
  [k \in 1..(Len(o.layouts) - 1) |-> getDistributed(k, o.layouts[k].attr)]

\* DistributeElementwise::matchAndRewrite: there is no failure path
MatchElementwise ==
  /\ pc = "pending"
  /\ op.kind = "elementwise"
  /\ IF \E k \in 1..Len(op.layouts) : op.layouts[k].kind = "unassigned"
     THEN \E outcome \in NullLayoutOutcomes :
            /\ pc' = outcome
            /\ emitted' = IF outcome = "success"
                          THEN <<EmittedOp(op.name, <<>>, <<>>, <<>>, 0, NoLayout)>>
                          ELSE emitted
            /\ rewrite' = IF outcome = "success" THEN "replaced" ELSE rewrite
     ELSE /\ emitted' = elementwiseOperands(op)
                          \o <<EmittedOp(op.name, <<>>, <<>>,
                                         getDistributedShape(op.layouts[Len(op.layouts)].attr),
                                         0, NoLayout)>>
          /\ rewrite' = "replaced"
          /\ pc' = "success"
  /\ UNCHANGED <<op, state, xfer, memory, simt>>

\* what dyn_cast of an unassigned (null) layout can do: end the process,
\* or read as a failed cast
NullCastOutcomes == {"abort", "failure"}

\* the part of the two transfer patterns up to the first iteration; the
\* need for masking is not looked at
MatchXfer(first) ==
  /\ pc = "pending"
  /\ IF op.layouts[1].kind = "unassigned"
     THEN /\ pc' \in NullCastOutcomes
          /\ UNCHANGED <<emitted, xfer, state>>
     ELSE IF op.layouts[1].kind # "LayoutAttr"
     THEN /\ pc' = "failure"
          /\ UNCHANGED <<emitted, xfer, state>>
     ELSE /\ emitted' = first
          /\ IF accessMemoryFatal(op)
             THEN /\ pc' = "abort"
                  /\ UNCHANGED <<xfer, state>>
             ELSE /\ xfer' = accessMemorySetup(op)
                  /\ state' = iteratorBegin(XferLayout(op))
                  /\ pc' = "access"
  /\ UNCHANGED <<op, rewrite, memory, simt>>

\* DistributeTransferReadLayoutAttr::matchAndRewrite, to the first iteration
MatchRead ==
  /\ op.kind = "vector.transfer_read"
  /\ MatchXfer(<<EmittedOp("arith.constant", <<>>, <<>>,
                           getDistributedShape(XferLayout(op)), 0, NoLayout)>>)

\* DistributeTransferWriteLayoutAttr::matchAndRewrite, to the first iteration
MatchWrite ==
  /\ op.kind = "vector.transfer_write"
  /\ MatchXfer(<<>>)

\* one iteration of accessMemory; after the last one the operation is
\* replaced (a read) or erased (a write) and the pattern succeeds
AccessStep ==
  /\ pc = "access"
  /\ emitted' = accessMemoryStep(emitted, state, op, xfer)
  /\ IF iteratorAtEnd(state, XferLayout(op), xfer.steps)
     THEN /\ pc' = "success"
          /\ rewrite' = IF op.kind = "vector.transfer_read" THEN "replaced" ELSE "erased"
          /\ state' = state
     ELSE /\ pc' = "access"
          /\ rewrite' = rewrite
          /\ state' = iteratorNext(state, XferLayout(op), xfer.steps)
  /\ UNCHANGED <<op, xfer, memory, simt>>

(***************************************************************************)
(* The lanes run the emitted code.                                         *)
(***************************************************************************)
\* every lane runs the code of a transfer read
RunRead ==
  /\ pc = "success"
  /\ op.kind = "vector.transfer_read"
  /\ op.layouts[1].kind = "LayoutAttr"
  /\ simt' = [l \in LaneIds(XferLayout(op)) |->
                runRead(emitted, 1, <<>>, <<>>, memory, l, XferLayout(op))]
  /\ pc' = "ran"
  /\ UNCHANGED <<op, state, xfer, emitted, rewrite, memory>>

\* the vector just read is written back by a transfer write with the same
\* indices and permutation map
WriteBack ==
  /\ pc = "ran"
  /\ op.kind = "vector.transfer_read"
  /\ op' = [op EXCEPT !.kind = "vector.transfer_write",
                      !.name = "vector.transfer_write",
                      !.roundTrip = TRUE]
  /\ pc' = "pending"
  /\ state' = <<>>
  /\ xfer' = NoXfer
  /\ emitted' = <<>>
  /\ rewrite' = "none"
  /\ UNCHANGED <<memory, simt>>

\* the lanes run the code of a transfer write
RunWrite ==
  /\ pc = "success"
  /\ op.kind = "vector.transfer_write"
  /\ op.layouts[1].kind = "LayoutAttr"
  /\ \E order \in LaneOrders(XferLayout(op)) :
       memory' = runWrite(emitted, 1, simt, simt, memory, order, XferLayout(op))
  /\ pc' = "ran"
  /\ UNCHANGED <<op, state, xfer, emitted, rewrite, simt>>

\* every lane runs the code of an elementwise operation
RunElementwise ==
  /\ pc = "success"
  /\ op.kind = "elementwise"
  /\ \A k \in 1..Len(op.layouts) : op.layouts[k].kind = "LayoutAttr"
  /\ simt' = [l \in LaneIds(op.layouts[Len(op.layouts)].attr) |->
                runElementwise(emitted, l)]
  /\ pc' = "ran"
  /\ UNCHANGED <<op, state, xfer, emitted, rewrite, memory>>

Next ==
  \/ MatchConstant
  \/ MatchElementwise
  \/ MatchRead
  \/ MatchWrite
  \/ AccessStep
  \/ RunRead
  \/ WriteBack
  \/ RunWrite
  \/ RunElementwise

Spec == Init /\ [][Next]_vars

(***************************************************************************)
(* Properties.                                                             *)
(***************************************************************************)
IsXfer == op.kind \in {"vector.transfer_read", "vector.transfer_write"}

InAccessMemory == IsXfer /\ pc \in {"access", "success", "ran"}

\* the lane coordinates in closed form
LaneCoordinate(label, laneId, grid) ==
  CASE label = "LANEX" -> laneId % grid[1]
    [] label = "LANEY" -> (laneId \div grid[1]) % grid[2]
    [] label = "LANEZ" -> laneId \div (grid[1] * grid[2])

\* the mixed-radix address of one dimension in closed form: every entry
\* weighs the product of the extents of the entries after it
MixedRadixAddress(st, dimLayout, laneId, grid) ==
  LET n == Len(dimLayout)
      digit(i) == IF isLane(dimLayout[i].label)
                  THEN LaneCoordinate(dimLayout[i].label, laneId, grid)
                  ELSE st[dimLayout[i].label]
      weight(i) == ShapeProduct(SubSeq(dimLayout, i + 1, n))
      RECURSIVE sum(_)
      sum(i) == IF i = 0 THEN 0 ELSE digit(i) * weight(i) + sum(i - 1)
  IN sum(n)

ExampleLayout ==
  MakeLayout(<<<<[label |-> "LANEX", shape |-> 2], [label |-> "VECTORX", shape |-> 4]>>>>)

\* C1: for every vector dimension and every lane, the address computed by
\* computeSIMDIndex is the mixed-radix address of that dimension's list,
\* the lane labels bringing the row-major coordinates of laneId over the
\* grid (Z, Y, X); in the example layout lane 0 gets 0 and lane 1 gets 4.
C1_SIMDIndexIsMixedRadix ==
  /\ pc = "access" =>
       \A laneId \in LaneIds(xfer.memoryLayout) :
         \A d \in 1..Len(xfer.memoryLayout.layouts) :
           SIMDIndexAt(state, xfer.memoryLayout, laneId)[d]
             = MixedRadixAddress(state, xfer.memoryLayout.layouts[d], laneId,
                                 xfer.memoryLayout.laneGrid)
  /\ ExampleLayout.laneGrid = <<2, 1, 1>>
  /\ SIMDIndexAt([l \in {"VECTORX"} |-> 0], ExampleLayout, 0) = <<0>>
  /\ SIMDIndexAt([l \in {"VECTORX"} |-> 0], ExampleLayout, 1) = <<4>>

C1_Witness ==
  /\ pc = "access"
  /\ xfer.memoryLayout.laneGrid[1] > 1
  /\ xfer.memoryLayout.laneGrid[2] > 1
  /\ \E l \in DOMAIN state : state[l] > 0

\* C2: two different iteration states of one layout never get the same
\* address vector on the same lane.
C2_AddressingInjectivePerLane ==
  pc = "access" =>
    \A other \in AllStates(xfer.memoryLayout) \ {state} :
      \A laneId \in LaneIds(xfer.memoryLayout) :
        SIMDIndexAt(state, xfer.memoryLayout, laneId)
          # SIMDIndexAt(other, xfer.memoryLayout, laneId)

C2_Witness ==
  /\ pc = "access"
  /\ Cardinality(AllStates(xfer.memoryLayout)) >= 4
  /\ Len(xfer.memoryLayout.layouts) = 2
  /\ \E l \in DOMAIN state : state[l] > 0

\* what every lane's result puts at the positions of the whole vector
Reassembles(layout, expected) ==
  \A p \in DOMAIN expected :
    /\ \E laneId \in LaneIds(layout), st \in AllStates(layout) :
         SIMDIndexAt(st, layout, laneId) = p
    /\ \A laneId \in LaneIds(layout), st \in AllStates(layout) :
         SIMDIndexAt(st, layout, laneId) = p
           => ElementAt(simt[laneId], computeSIMTIndex(st, layout)) = expected[p]

\* the result of the whole-vector operation
WholeResult ==
  LET layout == op.layouts[Len(op.layouts)].attr
  IN [p \in Tuples(VectorShape(layout)) |->
        applyElementwise(op.name, OperandVector(layout, 1)[p],
                         OperandVector(layout, 2)[p])]

\* C4 as stated: whatever layouts are assigned, the lanes' results put
\* back at their addresses are the whole-vector result.
C4_ElementwiseReassembles ==
  (op.kind = "elementwise" /\ pc = "ran") =>
    Reassembles(op.layouts[Len(op.layouts)].attr, WholeResult)

SameLayouts == \A k \in 1..Len(op.layouts) : op.layouts[k] = op.layouts[1]

\* C4 amended: when the operands and the result are assigned the same
\* layout, the lanes' results put back at their addresses are the
\* whole-vector result.
C4_ElementwiseSameLayout ==
  (op.kind = "elementwise" /\ pc = "ran" /\ SameLayouts) =>
    Reassembles(op.layouts[Len(op.layouts)].attr, WholeResult)

C4_Witness ==
  /\ op.kind = "elementwise"
  /\ pc = "ran"
  /\ SameLayouts
  /\ NumLanes(op.layouts[1].attr) > 1
  /\ Cardinality(AllStates(op.layouts[1].attr)) > 1

\* a layout the pattern needs is unassigned or of the wrong kind
NeededLayoutMissing ==
  \/ \E k \in 1..Len(op.layouts) : op.layouts[k].kind = "unassigned"
  \/ IsXfer /\ op.layouts[1].kind # "LayoutAttr"

\* C5: a pattern given an operation that lacks a layout it needs returns
\* no-match: it does not abort and creates, replaces and erases nothing.
C5_MissingLayoutIsNoMatch ==
  (NeededLayoutMissing /\ pc # "pending") =>
    (pc = "failure" /\ emitted = <<>> /\ rewrite = "none")

MemoryAccesses(ops) ==
  SelectSeq(ops, LAMBDA o : o.name \in {"vector.load", "vector.store"})

\* C6: a transfer that needs masking is left alone: the pattern returns
\* no-match and no load or store is generated.
C6_MaskedTransferIsNoMatch ==
  (/\ IsXfer
   /\ op.needsMask
   /\ op.layouts[1].kind = "LayoutAttr"
   /\ ~accessMemoryFatal(op)
   /\ pc # "pending") =>
    (pc = "failure" /\ MemoryAccesses(emitted) = <<>> /\ rewrite = "none")

\* the projected-out dimensions of a projected permutation are the
\* leading ones
LeadingProjection(map) ==
  /\ isProjectedPermutation(map)
  /\ \A i \in 1..Len(map.results) :
       map.results[i].value >= map.numDims - Len(map.results)

SwapMap == [numDims |-> 2, results |-> <<AffineDimExpr(1), AffineDimExpr(0)>>]

\* C7: for a projected permutation whose projected-out dimensions lead,
\* the reduced permutation holds each result's position less the number of
\* projected-out dimensions and is a permutation of 0..r-1; the swap of
\* two dimensions reduces to [1, 0].
C7_ReducedPermutation ==
  /\ (IsXfer /\ LeadingProjection(op.map)) =>
       LET reduced == getReducedPermutation(op.map)
           r == Len(op.map.results)
       IN /\ Len(reduced) = r
          /\ {reduced[i] : i \in 1..r} = 0..(r - 1)
          /\ \A i \in 1..r :
               reduced[i] + (op.map.numDims - r) = op.map.results[i].value
          /\ InAccessMemory => xfer.permutation = reduced
  /\ getReducedPermutation(SwapMap) = <<1, 0>>

C7_Witness ==
  /\ pc = "access"
  /\ op.map.numDims = 3
  /\ xfer.permutation = <<1, 0>>

\* the width in closed form: the extent of VECTORX in the register
\* dimension the last result of the map selects, or 1
ExpectedWidth ==
  LET r == Len(op.map.results)
      last == XferLayout(op).layouts[op.map.results[r].value - (op.map.numDims - r) + 1]
      found == {i \in 1..Len(last) : last[i].label = "VECTORX"}
  IN IF found = {} THEN 1 ELSE last[CHOOSE i \in found : TRUE].shape

\* C8: the step of the iterator on VECTORX and the width of every load
\* and store are the extent of VECTORX in the last dimension of the memory
\* layout, or 1 when it carries no VECTORX.
C8_LoadStoreWidth ==
  InAccessMemory =>
    /\ xfer.steps["VECTORX"] = ExpectedWidth
    /\ \A i \in 1..Len(emitted) :
         emitted[i].name \in {"vector.load", "vector.store"}
           => emitted[i].shape = <<ExpectedWidth>>

C8_Witness ==
  /\ pc = "success"
  /\ xfer.permutation = <<1, 0>>
  /\ ExpectedWidth > 1
  /\ MemoryAccesses(emitted) # <<>>

RECURSIVE StatesInOrder(_, _)
\* the iteration states in canonical order: the first entry slowest
StatesInOrder(entries, steps) ==
  IF entries = <<>> THEN << <<>> >>
  ELSE LET e == Head(entries)
           rest == StatesInOrder(Tail(entries), steps)
           step == stepOf(steps, e.label)
           count == ((e.shape - 1) \div step) + 1
       IN Concat([k \in 1..count |->
                    [m \in 1..Len(rest) |-> (e.label :> ((k - 1) * step)) @@ rest[m]]])

\* C9: the loads (stores) emitted for a transfer are one per iteration
\* state, in the iterator's canonical order.
C9_OneAccessPerStateInOrder ==
  InAccessMemory =>
    LET accesses == MemoryAccesses(emitted)
        canonical == StatesInOrder(NonLaneEntries(AllEntries(XferLayout(op))),
                                   xfer.steps)
    IN /\ Len(accesses) <= Len(canonical)
       /\ pc \in {"success", "ran"} => Len(accesses) = Len(canonical)
       /\ \A k \in 1..Len(accesses) :
            accesses[k].indices
              = getMemoryIndices(canonical[k], xfer.memoryLayout, op.indices)

C9_Witness ==
  /\ pc = "success"
  /\ Len(MemoryAccesses(emitted)) >= 4
  /\ xfer.steps["VECTORX"] > 1

\* the accumulator elements the k-th emitted operation, an insertion,
\* writes
InsertedAt(k) ==
  {AddLast(emitted[k].offsets, j) : j \in 0..(emitted[k - 1].shape[1] - 1)}

Insertions == {k \in 1..Len(emitted) : emitted[k].name = "vector.insert_strided_slice"}

\* C10: the chunks a transfer read inserts lie inside the accumulator,
\* are pairwise disjoint and cover it.
C10_AccumulatorCoveredOnce ==
  (op.kind = "vector.transfer_read" /\ pc = "success") =>
    LET elements == Tuples(getDistributedShape(XferLayout(op)))
    IN /\ \A k \in Insertions : InsertedAt(k) \subseteq elements
       /\ \A k, m \in Insertions : k # m => InsertedAt(k) \cap InsertedAt(m) = {}
       /\ UNION {InsertedAt(k) : k \in Insertions} = elements

\* C3: a transfer read followed by the transfer write of what was read, to
\* the same indices with the same map, leaves memory as it was.
C3_ReadWriteBackIdempotent ==
  (op.roundTrip /\ pc = "ran") => memory = MemoryInit(op)

====
